---------------------------- MODULE Spec2Model ----------------------------
(***************************************************************************)
(* PnP-JS-Core: the REST resource builders of sharepoint/rest/site.ts      *)
(* (Site, Fields, Field) over the Queryable base class, and the SharePoint *)
(* list configuration provider with its caching decorator.                 *)
(*                                                                         *)
(* Strings are sequences of tokens: "/" is the path separator, every other *)
(* token stands for a run of characters holding no separator.  String      *)
(* concatenation is \o.                                                    *)
(***************************************************************************)
EXTENDS Integers, Sequences, FiniteSets, TLC

VARIABLES
    objs,       \* heap of Queryable objects: [cls, url, q], q a reference into dicts
    dicts,      \* heap of query-parameter dictionaries (Queryable._query)
    prov,       \* history: for each object, how it was made [by, parent, path, arg]
    req,        \* the request most recently handed to the transport
    last,       \* history: the object whose query the last step wrote, if it wrote one
    side,       \* which side of the unresolved merge of the provider file is built
    cachers,    \* caching providers made by asCaching: [inner, cacheKey]
    invoked,    \* for each caching provider, how often it called its inner provider
    cache,      \* process-wide cache: set of records [key, value, expiration]
    calls,      \* getConfiguration() calls on caching providers, in start order
    now,        \* the clock
    lastLoad    \* the last direct call of SPListConfigurationProvider.getConfiguration()

qvars == <<objs, dicts, prov, req, last>>
cvars == <<side, cachers, invoked, cache, calls, now, lastLoad>>
vars == <<objs, dicts, prov, req, last, side, cachers, invoked, cache, calls, now, lastLoad>>

-----------------------------------------------------------------------------
(* Bounds *)

MaxObjs == 5

-----------------------------------------------------------------------------
(* Strings and paths *)

NoPath == <<>>

RECURSIVE TrimLeft(_)
TrimLeft(s) == IF s # <<>> /\ Head(s) = "/" THEN TrimLeft(Tail(s)) ELSE s

RECURSIVE TrimRight(_)
TrimRight(s) ==
    IF s # <<>> /\ s[Len(s)] = "/" THEN TrimRight(SubSeq(s, 1, Len(s) - 1)) ELSE s

\* Util.combinePaths: an absent path is dropped, the others lose their outer
\* separators and are joined by one separator.
combinePaths(a, b) ==
    IF b = NoPath THEN TrimRight(TrimLeft(a))
    ELSE TrimRight(TrimLeft(a)) \o <<"/">> \o TrimRight(TrimLeft(b))

EndsWith(s, suffix) ==
    /\ Len(suffix) <= Len(s)
    /\ SubSeq(s, Len(s) - Len(suffix) + 1, Len(s)) = suffix

\* `${show}` of a boolean
BoolToString(b) == IF b THEN "true" ELSE "false"

-----------------------------------------------------------------------------
(* Plain objects (TypedHash): sequences of <<name, value>> in insertion order *)

Str(s) == [t |-> "string", s |-> s, n |-> 0]
Num(n) == [t |-> "number", s |-> "", n |-> n]
Meta(type) == [t |-> "object", s |-> type, n |-> 0]     \* { "type": type }
Undefined == [t |-> "undefined", s |-> "", n |-> 0]

Has(o, k) == \E i \in DOMAIN o : o[i][1] = k
Get(o, k) == IF Has(o, k) THEN o[CHOOSE i \in DOMAIN o : o[i][1] = k][2] ELSE Undefined

Put(o, k, v) ==
    IF Has(o, k) THEN [i \in DOMAIN o |-> IF o[i][1] = k THEN <<k, v>> ELSE o[i]]
    ELSE Append(o, <<k, v>>)

RECURSIVE extend(_, _)
\* Util.extend(target, source): the members of target, then those of source,
\* a member of source replacing the member of target of the same name.
extend(target, source) ==
    IF source = <<>> THEN target
    ELSE extend(Put(target, Head(source)[1], Head(source)[2]), Tail(source))

\* JSON.stringify of a plain object, optionally wrapped as { wrap: object }:
\* the text lists the members in insertion order.
JSONstringify(wrap, o) == [present |-> TRUE, wrap |-> wrap, members |-> o]
NoBody == [present |-> FALSE, wrap |-> "", members |-> <<>>]


-----------------------------------------------------------------------------
(* Queryable: the base class of every resource *)

\* The first constructor argument, string | Queryable
FromStr(s) == [isStr |-> TRUE, s |-> s, p |-> 0]
FromObj(p) == [isStr |-> FALSE, s |-> <<>>, p |-> p]

EmptyDict == {}
\* Dictionary.add: one value per name, the last one written
DictAdd(d, name, value) == {e \in d : e[1] # name} \cup {<<name, value>>}

toUrl(o) == objs[o].url
Query(o) == dicts[objs[o].q]

\* new Queryable(baseUrl, path).  From a string: the base joined with the
\* path and an empty dictionary.  From a Queryable: the parent's url joined
\* with the path and a dictionary of its own holding a copy of the parent's
\* parameters (share = 0: no dictionary is shared).
Queryable(cls, baseUrl, path) ==
    IF baseUrl.isStr
    THEN [cls |-> cls, url |-> combinePaths(baseUrl.s, path), share |-> 0, init |-> EmptyDict]
    ELSE [cls |-> cls, url |-> combinePaths(toUrl(baseUrl.p), path), share |-> 0,
          init |-> Query(baseUrl.p)]

QueryableInstance(cls, baseUrl, path) == Queryable(cls, baseUrl, path)
QueryableCollection(cls, baseUrl, path) == Queryable(cls, baseUrl, path)

\* Queryable.get() / Queryable.post(options): the request handed to the
\* transport for the object o (a constructor result or a heap object).
Request(method, url, query, headers, body, by, arg) ==
    [method |-> method, url |-> url, query |-> query, headers |-> headers,
     body |-> body, by |-> by, arg |-> arg]
\* history kept with a request: the string, the number and the properties the
\* caller passed
Arg(s, n, props) == [s |-> s, n |-> n, props |-> props]
NoArg == Arg("", 0, <<>>)
NoRequest == Request("", <<>>, EmptyDict, <<>>, NoBody, "", NoArg)

\* The heap after the constructor results news (made by provs) are stored.
Alloc(news, provs) ==
    /\ Len(objs) + Len(news) <= MaxObjs
    /\ objs' = objs \o [k \in DOMAIN news |->
                          [cls |-> news[k].cls, url |-> news[k].url,
                           q |-> IF news[k].share = 0 THEN Len(dicts) + k
                                 ELSE news[k].share]]
    /\ dicts' = dicts \o [k \in DOMAIN news |-> news[k].init]
    /\ prov' = prov \o provs

Prov(by, parent, path, arg) == [by |-> by, parent |-> parent, path |-> path, arg |-> arg]
Step(op, target) == [op |-> op, target |-> target]

-----------------------------------------------------------------------------
(* Inputs *)

Titles == {"Title1"}
Ids == {"id1"}
QueryNames == {"$select"}
QueryValues == {<<"Title", ",", "Value">>}
FieldTypes == {"SP.Field", "SP.FieldText"}
PropertySets ==
    { <<>>,
      << <<"Description", Str("d")>> >>,
      << <<"__metadata", Str("x")>> >> }
Omitted == -1
MaxLengths == {Omitted, 100}
Outcomes == {"fail"} \cup Ids

-----------------------------------------------------------------------------
(* Site.  getContextInfo, getDocumentLibraries and getWebUrlFromPageUrl build *)
(* a Queryable of their own from a fixed string and touch no other object;   *)
(* they are left out.                                                         *)

Site(baseUrl, path) == QueryableInstance("Site", FromStr(baseUrl), path)
Web(baseUrl, path) == Queryable("Web", baseUrl, path)

\* get rootWeb
SiteRootWeb(p) ==
    /\ objs[p].cls = "Site"
    /\ Alloc(<<Web(FromObj(p), <<"rootweb">>)>>, <<Prov("rootWeb", p, <<"rootweb">>, "")>>)
    /\ last' = Step("", 0)
    /\ UNCHANGED <<req>>
    /\ UNCHANGED cvars

-----------------------------------------------------------------------------
(* Field *)

\* A Field that keeps its parent's dictionary instead of a copy
Field_SharesQuery(baseUrl, path) ==
    [QueryableInstance("Field", baseUrl, NoPath) EXCEPT
        !.share = IF baseUrl.isStr THEN 0 ELSE objs[baseUrl.p].q]

\* constructor(baseUrl, path?) { super(baseUrl); }
Field(baseUrl, path) == QueryableInstance("Field", baseUrl, NoPath)

\* An update posted without the X-HTTP-Method header
FieldUpdate_NoHeader(f, properties, fieldType) ==
    /\ objs[f].cls = "Field"
    /\ LET postBody == JSONstringify("", extend(<< <<"__metadata", Meta(fieldType)>> >>, properties))
       IN req' = Request("POST", toUrl(f), Query(f), <<>>,
                         postBody, "update", Arg(fieldType, 0, properties))
    /\ last' = Step("", 0)
    /\ UNCHANGED <<objs, dicts, prov>>
    /\ UNCHANGED cvars

FieldUpdate(f, properties, fieldType) ==
    /\ objs[f].cls = "Field"
    /\ LET postBody == JSONstringify("", extend(<< <<"__metadata", Meta(fieldType)>> >>, properties))
       IN req' = Request("POST", toUrl(f), Query(f), << <<"X-HTTP-Method", Str("MERGE")>> >>,
                         postBody, "update", Arg(fieldType, 0, properties))
    /\ last' = Step("", 0)
    /\ UNCHANGED <<objs, dicts, prov>>
    /\ UNCHANGED cvars

FieldDelete(f) ==
    /\ objs[f].cls = "Field"
    /\ req' = Request("POST", toUrl(f), Query(f), << <<"X-HTTP-Method", Str("DELETE")>> >>,
                      NoBody, "delete", NoArg)
    /\ last' = Step("", 0)
    /\ UNCHANGED <<objs, dicts, prov>>
    /\ UNCHANGED cvars

\* The three setShowIn...Form methods: a child Field at name(show), posted.
SetShowIn(f, op, name, show) ==
    /\ objs[f].cls = "Field"
    /\ LET path == <<name, "(", BoolToString(show), ")">>
           q == Field(FromObj(f), path)
       IN
        /\ Alloc(<<q>>, <<Prov(op, f, path, "")>>)
        /\ req' = Request("POST", q.url, q.init, <<>>, NoBody, op, Arg(BoolToString(show), 0, <<>>))
    /\ last' = Step("", 0)
    /\ UNCHANGED cvars

FieldSetShowInDisplayForm(f, show) ==
    SetShowIn(f, "setShowInDisplayForm", "setshowindisplayform", show)
FieldSetShowInEditForm(f, show) ==
    SetShowIn(f, "setShowInEditForm", "setshowineditform", show)
FieldSetShowInNewForm(f, show) ==
    SetShowIn(f, "setShowInNewForm", "setshowinnewform", show)


-----------------------------------------------------------------------------
(* Fields *)

\* constructor(baseUrl, path = "fields")
Fields(baseUrl, path) == QueryableCollection("Fields", baseUrl, path)

FieldsGetByTitle(p, title) ==
    /\ objs[p].cls = "Fields"
    /\ LET path == <<"getByTitle", "('", title, "')">> IN
        Alloc(<<Field(FromObj(p), path)>>, <<Prov("getByTitle", p, path, title)>>)
    /\ last' = Step("", 0)
    /\ UNCHANGED <<req>>
    /\ UNCHANGED cvars

\* A key selector joined to the collection as a path segment
getById_AsSegment(p, id) == Field(FromStr(combinePaths(toUrl(p), <<"('", id, "')">>)), NoPath)

\* new Field(this.toUrl().concat(`('${id}')`))
getById(p, id) == Field(FromStr(toUrl(p) \o <<"('", id, "')">>), NoPath)

FieldsGetById(p, id) ==
    /\ objs[p].cls = "Fields"
    /\ Alloc(<<getById(p, id)>>, <<Prov("getById", p, NoPath, id)>>)
    /\ last' = Step("", 0)
    /\ UNCHANGED <<req>>
    /\ UNCHANGED cvars

\* The promise continuation of add and createFieldAsXml runs on a successful
\* response only, and reads nothing but this.toUrl(), which no operation
\* changes: request and continuation are taken as one step, the response
\* (a failure, or the new field's Id) being an input of the step.
FieldsCreateFieldAsXml(p, xml, outcome) ==
    /\ objs[p].cls = "Fields"
    /\ LET info == << <<"SchemaXml", Str(xml)>> >>
           postBody == JSONstringify("parameters",
                          extend(<< <<"__metadata", Meta("SP.XmlSchemaFieldCreationInformation")>> >>, info))
           path == <<"createfieldasxml">>
           q == Fields(FromObj(p), path)
       IN
        /\ IF outcome = "fail"
           THEN Alloc(<<q>>, <<Prov("createFieldAsXml", p, path, "")>>)
           ELSE Alloc(<<q, getById(p, outcome)>>,
                      <<Prov("createFieldAsXml", p, path, ""), Prov("getById", p, NoPath, outcome)>>)
        /\ req' = Request("POST", q.url, q.init, <<>>, postBody, "createFieldAsXml", Arg(xml, 0, <<>>))
    /\ last' = Step("", 0)
    /\ UNCHANGED cvars

\* Fields.add, called by by with the argument arg
add(p, title, fieldType, properties, outcome, by, arg) ==
    /\ objs[p].cls = "Fields"
    /\ LET postBody == JSONstringify("",
                          extend(<< <<"__metadata", Meta(fieldType)>>, <<"Title", Str(title)>> >>,
                                 properties))
       IN req' = Request("POST", toUrl(p), Query(p), <<>>, postBody, by, arg)
    /\ IF outcome = "fail"
       THEN UNCHANGED <<objs, dicts, prov>>
       ELSE Alloc(<<getById(p, outcome)>>, <<Prov("getById", p, NoPath, outcome)>>)
    /\ last' = Step("", 0)
    /\ UNCHANGED cvars

FieldsAdd(p, title, fieldType, properties, outcome) ==
    add(p, title, fieldType, properties, outcome, "add", Arg(fieldType, 0, properties))

DefaultMaxLength == 255

\* addText(title, maxLength = 255, properties?)
FieldsAddText(p, title, maxLengthArg, properties, outcome) ==
    LET maxLength == IF maxLengthArg = Omitted THEN DefaultMaxLength ELSE maxLengthArg IN
    add(p, title, "SP.FieldText", extend(<< <<"FieldTypeKind", Num(2)>> >>, properties),
        outcome, "addText", Arg(title, maxLength, properties))

-----------------------------------------------------------------------------
(* Views: only its test is in the sources *)

Views(baseUrl, path) == QueryableCollection("Views", baseUrl, path)

ViewsGetById(p, id) ==
    /\ objs[p].cls = "Views"
    /\ Alloc(<<QueryableInstance("View", FromStr(toUrl(p) \o <<"('", id, "')">>), NoPath)>>,
             <<Prov("getById", p, NoPath, id)>>)
    /\ last' = Step("", 0)
    /\ UNCHANGED <<req>>
    /\ UNCHANGED cvars

-----------------------------------------------------------------------------
(* Query parameters: the query accessor, as select and the like use it *)

QueryAdd(o, name, value) ==
    /\ dicts' = [dicts EXCEPT ![objs[o].q] = DictAdd(@, name, value)]
    /\ last' = Step("query.add", o)
    /\ UNCHANGED <<objs, prov, req>>
    /\ UNCHANGED cvars

-----------------------------------------------------------------------------
(* The resource builders as a state machine *)

Roots ==
    << Site(<<"_api", "/", "site">>, NoPath),
       Fields(FromStr(<<"_api", "/", "web">>), <<"fields">>),
       Views(FromStr(<<"_api", "/", "web", "/", "lists", "/", "getByTitle", "('", "Tasks", "')">>),
             <<"views">>) >>

InitQ ==
    /\ objs = [k \in DOMAIN Roots |-> [cls |-> Roots[k].cls, url |-> Roots[k].url, q |-> k]]
    /\ dicts = [k \in DOMAIN Roots |-> EmptyDict]
    /\ prov = [k \in DOMAIN Roots |-> Prov("new", 0, NoPath, "")]
    /\ req = NoRequest
    /\ last = Step("", 0)

\* Deriving resources and writing query parameters
Next ==
    \/ \E p \in DOMAIN objs : SiteRootWeb(p)
    \/ \E p \in DOMAIN objs, t \in Titles : FieldsGetByTitle(p, t)
    \/ \E p \in DOMAIN objs, i \in Ids : FieldsGetById(p, i)
    \/ \E p \in DOMAIN objs, o \in Outcomes : FieldsCreateFieldAsXml(p, "<Field/>", o)
    \/ \E f \in DOMAIN objs, show \in BOOLEAN : FieldSetShowInDisplayForm(f, show)
    \/ \E f \in DOMAIN objs, show \in BOOLEAN : FieldSetShowInEditForm(f, show)
    \/ \E f \in DOMAIN objs, show \in BOOLEAN : FieldSetShowInNewForm(f, show)
    \/ \E p \in DOMAIN objs, i \in Ids : ViewsGetById(p, i)
    \/ \E o \in DOMAIN objs, n \in QueryNames, v \in QueryValues : QueryAdd(o, n, v)

\* Creating, updating and deleting fields
NextWrite ==
    \/ \E p \in DOMAIN objs, t \in Titles : FieldsGetByTitle(p, t)
    \/ \E p \in DOMAIN objs, i \in Ids : FieldsGetById(p, i)
    \/ \E p \in DOMAIN objs, t \in Titles, ft \in FieldTypes, ps \in PropertySets, o \in Outcomes :
          FieldsAdd(p, t, ft, ps, o)
    \/ \E p \in DOMAIN objs, t \in Titles, ml \in MaxLengths, ps \in PropertySets, o \in Outcomes :
          FieldsAddText(p, t, ml, ps, o)
    \/ \E f \in DOMAIN objs, ps \in PropertySets, ft \in FieldTypes : FieldUpdate(f, ps, ft)
    \/ \E f \in DOMAIN objs : FieldDelete(f)
    \/ \E o \in DOMAIN objs, n \in QueryNames, v \in QueryValues : QueryAdd(o, n, v)

Init ==
    /\ InitQ
    /\ side \in {"HEAD", "159efbb"}
    /\ cachers = <<>>
    /\ invoked = <<>>
    /\ cache = {}
    /\ calls = <<>>
    /\ now = 0
    /\ lastLoad = [called |-> FALSE, response |-> [failed |-> TRUE, rows |-> <<>>],
                   outcome |-> [ok |-> FALSE, value |-> {}, error |-> ""]]

Spec == Init /\ [][Next]_vars
SpecWrite == Init /\ [][NextWrite]_vars


-----------------------------------------------------------------------------
(* SPListConfigurationProvider *)

\* The provider file holds an unresolved merge: either side may be built.
Sides == {"HEAD", "159efbb"}

\* new SPListConfigurationProvider(sourceWeb, sourceListTitle = "config"): the
\* providers of the model.  The first two are equivalent: Web objects of the
\* same url, one of them with a query parameter set, and the same list title.
WebA == <<"https:", "/", "host", "/", "sites", "/", "a">>
WebB == <<"https:", "/", "host", "/", "sites", "/", "b">>
SPListConfigurationProvider(webUrl, webQuery, sourceListTitle) ==
    [web |-> [url |-> webUrl, query |-> webQuery], listTitle |-> sourceListTitle]
Providers ==
    << SPListConfigurationProvider(WebA, EmptyDict, "config"),
       SPListConfigurationProvider(WebA, {<<"$select", <<"Title">>>>}, "config"),
       SPListConfigurationProvider(WebB, EmptyDict, "config") >>

\* The response to the items request: a transport failure, or the rows.  A row
\* holds a Value and may lack its Title.
Row(title, value) == [hasTitle |-> TRUE, Title |-> title, Value |-> value]
RowNoTitle(value) == [hasTitle |-> FALSE, Title |-> "", Value |-> value]
Response(rows) == [failed |-> FALSE, rows |-> rows]
Failure == [failed |-> TRUE, rows |-> <<>>]

\* The property name a row's Title gives: an absent Title reads as undefined,
\* which names the property "undefined".
PropertyKey(row) == IF row.hasTitle THEN row.Title ELSE "undefined"

\* A configuration object is the set of its own properties.
Keys(configuration) == {pr.key : pr \in configuration}
ValueOf(configuration, k) == (CHOOSE pr \in configuration : pr.key = k).value
Resolved(configuration) == [ok |-> TRUE, value |-> configuration, error |-> ""]
Rejected(error) == [ok |-> FALSE, value |-> {}, error |-> error]

\* configuration[i.Title] = i.Value
assign(configuration, row) ==
    Resolved({pr \in configuration : pr.key # PropertyKey(row)}
                \cup {[key |-> PropertyKey(row), value |-> row.Value, enumerable |-> TRUE]})

\* Object.defineProperty(configuration, item.Title, { configurable: false,
\* enumerable: false, value: item.Value, writable: false }): a property that
\* exists cannot be given another value.
defineProperty(configuration, row) ==
    IF PropertyKey(row) \in Keys(configuration)
    THEN IF ValueOf(configuration, PropertyKey(row)) = row.Value
         THEN Resolved(configuration)
         ELSE Rejected("TypeError")
    ELSE Resolved(configuration
                    \cup {[key |-> PropertyKey(row), value |-> row.Value, enumerable |-> FALSE]})

RECURSIVE reduce(_, _, _)
\* data.forEach / data.reduce over the rows, from the empty object
reduce(built, rows, configuration) ==
    IF rows = <<>> THEN Resolved(configuration)
    ELSE LET step == IF built = "HEAD" THEN assign(configuration, Head(rows))
                     ELSE defineProperty(configuration, Head(rows))
         IN IF step.ok THEN reduce(built, Tail(rows), step.value) ELSE step

\* A reduce that is given no initial value
getConfiguration_NoInitialValue(built, response) ==
    IF response.failed THEN Rejected("RequestError")
    ELSE IF response.rows = <<>> THEN Rejected("TypeError")
    ELSE reduce(built, Tail(response.rows), {})

\* getConfiguration(): the items of the list, selected by Title and Value,
\* turned into an object
getConfiguration(built, response) ==
    IF response.failed THEN Rejected("RequestError")
    ELSE reduce(built, response.rows, {})

\* A cache key made of the url with its query parameters
asCaching_UrlAndQuery(built, p) ==
    [inner |-> p,
     cacheKey |-> <<"splist_">> \o Providers[p].web.url
                    \o (IF Providers[p].web.query = EmptyDict THEN <<>> ELSE <<"?", "$select=Title">>)
                    \o <<"+", Providers[p].listTitle>>]

\* asCaching(): new CachingConfigurationProvider(this, cacheKey).  HEAD reads
\* this.webUrl, which the class does not have: undefined.
asCaching(built, p) ==
    [inner |-> p,
     cacheKey |-> IF built = "HEAD"
                  THEN <<"splist_", "undefined", "+", Providers[p].listTitle>>
                  ELSE <<"splist_">> \o Providers[p].web.url \o <<"+", Providers[p].listTitle>>]

-----------------------------------------------------------------------------
(* Bounds and inputs of the configuration model *)

MaxCachers == 2
MaxRows == 2
MaxCalls == 2
TTL == 2
MaxTime == TTL + 1

RowTitles == {"A", "B"}
RowValues == {"1", "2"}
AllRows == {Row(t, v) : t \in RowTitles, v \in RowValues} \cup {RowNoTitle("1")}
RECURSIVE SeqsUpTo(_, _)
SeqsUpTo(S, n) ==
    IF n = 0 THEN {<<>>}
    ELSE LET shorter == SeqsUpTo(S, n - 1) IN
         shorter \cup {Append(q, x) : q \in {r \in shorter : Len(r) = n - 1}, x \in S}
Responses == {Failure} \cup {Response(rows) : rows \in SeqsUpTo(AllRows, MaxRows)}

-----------------------------------------------------------------------------
(* The provider as a state machine *)

AsCaching(p) ==
    /\ Len(cachers) < MaxCachers
    /\ cachers' = Append(cachers, asCaching(side, p))
    /\ invoked' = Append(invoked, 0)
    /\ UNCHANGED <<side, cache, calls, now, lastLoad>>
    /\ UNCHANGED qvars

\* provider.getConfiguration(), called directly, with its response
GetConfiguration(p, response) ==
    /\ lastLoad' = [called |-> TRUE, response |-> response,
                    outcome |-> getConfiguration(side, response)]
    /\ UNCHANGED <<side, cachers, invoked, cache, calls, now>>
    /\ UNCHANGED qvars

NextProvider ==
    \/ \E p \in DOMAIN Providers : AsCaching(p)
    \/ \E p \in DOMAIN Providers, r \in Responses : GetConfiguration(p, r)

SpecProvider == Init /\ [][NextProvider]_vars

-----------------------------------------------------------------------------
(* CachingConfigurationProvider: its file is not among the sources *)

\* The record of the cache under the key, if one is there and has not expired
Unexpired(key) == {r \in cache : r.key = key /\ now < r.expiration}

\* A call, with its history: when it started and ended, and which earlier
\* calls were still pending when it started
Call(c, status, hit, result, end) ==
    [c |-> c, key |-> cachers[c].cacheKey, start |-> now, status |-> status, hit |-> hit,
     result |-> result, end |-> end,
     overlaps |-> {i \in DOMAIN calls : calls[i].status = "pending"}]

\* A cache that keeps what a failed load left behind
Store_AlsoOnFailure(key, outcome) ==
    {r \in cache : r.key # key}
        \cup {[key |-> key, value |-> outcome.value, expiration |-> now + TTL]}

\* The cache after the inner load for key ended with outcome: a new record
\* replaces the key's record when the load succeeded, nothing changes otherwise.
Store(key, outcome) ==
    IF outcome.ok
    THEN {r \in cache : r.key # key}
            \cup {[key |-> key, value |-> outcome.value, expiration |-> now + TTL]}
    ELSE cache

\* A lookup that never finds a record
Lookup_AlwaysMiss(key) == {}

\* The lookup getConfiguration() starts with
Lookup(key) == Unexpired(key)

\* cachingProvider.getConfiguration(), up to its inner call: a hit resolves
\* with the stored mapping, a miss calls the inner provider.
CachingGetConfiguration(c) ==
    /\ Len(calls) < MaxCalls
    /\ LET found == Lookup(cachers[c].cacheKey) IN
        IF found # {}
        THEN /\ calls' = Append(calls, Call(c, "resolved", TRUE,
                                           Resolved((CHOOSE r \in found : TRUE).value), now))
             /\ UNCHANGED invoked
        ELSE /\ calls' = Append(calls, Call(c, "pending", FALSE, Rejected(""), now))
             /\ invoked' = [invoked EXCEPT ![c] = @ + 1]
    /\ UNCHANGED <<side, cachers, cache, now, lastLoad>>
    /\ UNCHANGED qvars

\* The inner load of call i ends, the list having answered with response
InnerLoadEnds(i, response) ==
    /\ calls[i].status = "pending"
    /\ LET outcome == getConfiguration(side, response) IN
        /\ cache' = Store(calls[i].key, outcome)
        /\ calls' = [calls EXCEPT ![i].status = IF outcome.ok THEN "resolved" ELSE "rejected",
                                  ![i].result = outcome,
                                  ![i].end = now]
    /\ UNCHANGED <<side, cachers, invoked, now, lastLoad>>
    /\ UNCHANGED qvars

Tick ==
    /\ now < MaxTime
    /\ now' = now + 1
    /\ UNCHANGED <<side, cachers, invoked, cache, calls, lastLoad>>
    /\ UNCHANGED qvars

\* The answers of the list in the runs of the cache
CacheResponses ==
    { Failure,
      Response(<<Row("A", "1"), Row("B", "2")>>),
      Response(<<Row("A", "1"), Row("A", "2")>>) }

\* Every provider has been wrapped once: the first two caching providers are
\* over equivalent providers.
InitCache ==
    /\ InitQ
    /\ side \in Sides
    /\ cachers = [p \in DOMAIN Providers |-> asCaching(side, p)]
    /\ invoked = [p \in DOMAIN Providers |-> 0]
    /\ cache = {}
    /\ calls = <<>>
    /\ now = 0
    /\ lastLoad = [called |-> FALSE, response |-> Failure, outcome |-> Rejected("")]

NextCache ==
    \/ \E c \in DOMAIN cachers : CachingGetConfiguration(c)
    \/ \E i \in DOMAIN calls, r \in CacheResponses : InnerLoadEnds(i, r)
    \/ Tick

SpecCache == InitCache /\ [][NextCache]_vars

-----------------------------------------------------------------------------
(* Claims about the resource builders *)

\* C3: no step but a write to an object's own query parameters changes the
\* object's resolved url or its query parameters: deriving a child from it
\* (rootWeb, getByTitle, getById, the internal children of createFieldAsXml
\* and setShowIn...Form) and writing the child's parameters leave it as it was.
C3_ParentUnchanged ==
    [][\A p \in DOMAIN objs :
          (last' # Step("query.add", p)) =>
              /\ objs'[p].url = objs[p].url
              /\ dicts'[objs'[p].q] = dicts[objs[p].q]]_vars

\* A derived child whose parameters were just written and now differ from
\* its parent's.
C3_Witness ==
    \E c \in DOMAIN objs :
        /\ prov[c].by \in {"rootWeb", "getByTitle"}
        /\ last = Step("query.add", c)
        /\ Query(c) # Query(prov[c].parent)

ShowOps == {"setShowInDisplayForm", "setShowInEditForm", "setShowInNewForm"}

\* C4: a resource made from a parent and a relative path resolves to the
\* parent's url, a separator and the path; the setShowIn...Form requests go to
\* the field's url extended by setshowin...form(<show>).
C4_ChildUrlExtendsParent ==
    /\ \A c \in DOMAIN objs :
          (prov[c].parent # 0 /\ prov[c].path # NoPath) =>
              objs[c].url = toUrl(prov[c].parent) \o <<"/">> \o prov[c].path
    /\ req.by \in ShowOps => EndsWith(req.url, <<"(", req.arg.s, ")">>)

\* C5: the url of c.getById(i) ends with c's url immediately followed by
\* ('i'), no separator between them.
C5_GetByIdUrl ==
    \A c \in DOMAIN objs :
        prov[c].by = "getById" =>
            EndsWith(objs[c].url, toUrl(prov[c].parent) \o <<"('", prov[c].arg, "')">>)

\* A field got by id from a Fields collection and a view got from Views.
C5_Witness ==
    /\ \E c \in DOMAIN objs : prov[c].by = "getById" /\ objs[c].cls = "Field"
    /\ \E c \in DOMAIN objs : prov[c].by = "getById" /\ objs[c].cls = "View"

TunnelledAs(verb) ==
    /\ req.method = "POST"
    /\ Get(req.headers, "X-HTTP-Method") = Str(verb)

C10_BodyCarriesMaxLength ==
    req.by = "addText" =>
        /\ \E i \in DOMAIN req.body.members :
              /\ req.body.members[i][1] # "FieldTypeKind"
              /\ req.body.members[i][2] = Num(req.arg.n)
        /\ ~Has(req.arg.props, "__metadata") =>
              Get(req.body.members, "__metadata") = Meta("SP.FieldText")
        /\ Get(req.body.members, "Title") = Str(req.arg.s)


-----------------------------------------------------------------------------
(* Claims about the configuration providers *)

RECURSIVE SumTo(_, _)
SumTo(f, n) == IF n = 0 THEN 0 ELSE f[n] + SumTo(f, n - 1)

\* How often the inner providers were called for a cache key
InvokedFor(key) ==
    SumTo([c \in DOMAIN cachers |-> IF cachers[c].cacheKey = key THEN invoked[c] ELSE 0],
          Len(cachers))

\* i and j are the two calls made for their key, and both resolved
TheTwoCalls(i, j) ==
    /\ i < j
    /\ calls[i].key = calls[j].key
    /\ {n \in DOMAIN calls : calls[n].key = calls[i].key} = {i, j}
    /\ calls[i].status = "resolved"
    /\ calls[j].status = "resolved"

\* C1 as stated: of two calls for a key whose loads succeed, the second made
\* less than the TTL after the first, the inner provider is called once; the
\* second made once the first one's record has expired, it is called twice.
C1_AsStated ==
    \A i, j \in DOMAIN calls :
        TheTwoCalls(i, j) =>
            /\ calls[j].start < calls[i].start + TTL => InvokedFor(calls[i].key) = 1
            /\ calls[j].start >= calls[i].end + TTL => InvokedFor(calls[i].key) = 2

\* C1 amended: the second call made after the first has resolved and before
\* the record it stored expires, the inner provider is called once; the second
\* made once that record has expired, it is called twice.
C1_SequentialCalls ==
    \A i, j \in DOMAIN calls :
        TheTwoCalls(i, j) =>
            /\ (i \notin calls[j].overlaps /\ calls[j].start < calls[i].end + TTL)
                  => InvokedFor(calls[i].key) = 1
            /\ calls[j].start >= calls[i].end + TTL => InvokedFor(calls[i].key) = 2

\* Two calls through different caching providers of one key, the second after
\* the first resolved and served from the cache.
C1_Witness ==
    \E i, j \in DOMAIN calls :
        /\ TheTwoCalls(i, j)
        /\ calls[i].c # calls[j].c
        /\ i \notin calls[j].overlaps
        /\ calls[j].hit

\* C2: a call whose inner load fails leaves the cache as it was and is
\* rejected with the inner provider's error; a call that starts while its key
\* has no unexpired record calls the inner provider.
C2_FailedLoadNotCached ==
    [][/\ \A i \in DOMAIN calls :
             (calls[i].status = "pending" /\ calls'[i].status = "rejected") =>
                 /\ cache' = cache
                 /\ \E r \in CacheResponses :
                       /\ ~getConfiguration(side, r).ok
                       /\ calls'[i].result = getConfiguration(side, r)
       /\ \A c \in DOMAIN cachers :
             (/\ Len(calls') = Len(calls) + 1
              /\ calls'[Len(calls')].c = c
              /\ Unexpired(cachers[c].cacheKey) = {})
                 => invoked'[c] = invoked[c] + 1]_vars

\* A call was rejected, and a later call for the key went to the inner
\* provider again.
C2_Witness ==
    \E i, j \in DOMAIN calls :
        /\ i < j
        /\ calls[i].key = calls[j].key
        /\ calls[i].status = "rejected"
        /\ i \notin calls[j].overlaps
        /\ ~calls[j].hit

DistinctTitles(rows) ==
    /\ \A i \in DOMAIN rows : rows[i].hasTitle
    /\ \A i, j \in DOMAIN rows : i # j => rows[i].Title # rows[j].Title

Loaded == lastLoad.called /\ ~lastLoad.response.failed

\* C7: for a response whose rows have pairwise distinct Titles,
\* getConfiguration() resolves to a mapping whose keys are the rows' Titles
\* and which maps each Title to its row's Value.
C7_TitleToValue ==
    (Loaded /\ DistinctTitles(lastLoad.response.rows)) =>
        LET rows == lastLoad.response.rows
            configuration == lastLoad.outcome.value
        IN /\ lastLoad.outcome.ok
           /\ Keys(configuration) = {rows[i].Title : i \in DOMAIN rows}
           /\ \A i \in DOMAIN rows : ValueOf(configuration, rows[i].Title) = rows[i].Value

\* A response of two rows of different Titles was turned into a mapping.
C7_Witness ==
    /\ Loaded
    /\ Len(lastLoad.response.rows) = 2
    /\ DistinctTitles(lastLoad.response.rows)

\* C8: getConfiguration() rejects, or leaves out of the mapping, every row
\* that has no Title.
C8_NoKeyFromMissingTitle ==
    (Loaded /\ \E i \in DOMAIN lastLoad.response.rows : ~lastLoad.response.rows[i].hasTitle) =>
        \/ ~lastLoad.outcome.ok
        \/ "undefined" \notin Keys(lastLoad.outcome.value)

\* C9: caching providers made from providers of the same web url and the same
\* list title have the same cache key.
C9_SameSourceSameKey ==
    \A c1, c2 \in DOMAIN cachers :
        LET p1 == Providers[cachers[c1].inner]
            p2 == Providers[cachers[c2].inner]
        IN (p1.web.url = p2.web.url /\ p1.listTitle = p2.listTitle) =>
              cachers[c1].cacheKey = cachers[c2].cacheKey

\* Two different providers of one source have both been wrapped.
C9_Witness ==
    \E c1, c2 \in DOMAIN cachers :
        /\ cachers[c1].inner # cachers[c2].inner
        /\ Providers[cachers[c1].inner].web.url = Providers[cachers[c2].inner].web.url
        /\ Providers[cachers[c1].inner].listTitle = Providers[cachers[c2].inner].listTitle

=============================================================================
